---- MODULE Spec2Model ----
(***************************************************************************)
(* Model of tools/version_switcher.py: the VersionSwitcher of the Oxify    *)
(* mod.  A run of main() validates its arguments, resolves the dependency  *)
(* versions from four metadata sources (suggest_versions), patches four    *)
(* configuration files in a fixed order and drives four gradle stages.     *)
(*                                                                         *)
(* Text is modelled as sequences of lexemes (strings): a file's content is *)
(* a sequence of lines, a line a sequence of lexemes, and a value (a       *)
(* version, a warning) is a sequence of lexemes too, so that an f-string   *)
(* is a concatenation and a regular expression a search for lexemes.  The  *)
(* lexemes are chosen so that no key or pattern of the program straddles   *)
(* two of them: a match on the characters is a match on the lexemes.       *)
(***************************************************************************)
EXTENDS Naturals, Sequences, FiniteSets, TLC

VARIABLES
    pc,                 \* position of the run in main() / switch_version()
    minecraft_version,  \* args.minecraft_version
    mod_version,        \* args.mod_version
    fetched,            \* results of the get_latest_* calls made so far
    suggestions,        \* the dict suggest_versions builds (without _warnings)
    warnings,           \* suggestions["_warnings"]
    disk,               \* content of the four target files
    disk0,              \* content of the four target files when the run began
    outcome,            \* what each update_* call did to its target
    shown,              \* every rendering display_warnings printed
    stages,             \* the gradle verbs invoked so far, in order
    printed,            \* what switch_version printed about the stages
    gen_sources_success,
    vscode_success,
    build_success,
    exit_code           \* argument of sys.exit, None while running

vars == <<pc, minecraft_version, mod_version, fetched, suggestions, warnings,
          disk, disk0, outcome, shown, stages, printed, gen_sources_success,
          vscode_success, build_success, exit_code>>

\* Optional values are sequences of length 0 (Python's None, an unset local)
\* or 1 (the value).
None == <<>>
Some(v) == <<v>>

\* ------------------------------------------------------------------ bounds
\* Most lines a gradle.properties of the model holds.
MaxLines == 2

\* ------------------------------------------------------------ text helpers
\* First index i of line with line[i] = lex, 0 when there is none (re.search).
FindLexeme(line, lex) ==
    IF \E i \in 1..Len(line) : line[i] = lex
    THEN CHOOSE i \in 1..Len(line) :
            /\ line[i] = lex
            /\ \A j \in 1..(i - 1) : line[j] # lex
    ELSE 0

\* A mutation of SubKeyLine: the pattern without its '.*', so that only
\* "key=" is replaced and the old value stays behind the new one.
SubKeyLineKeepTail(line, key, value) ==
    LET i == FindLexeme(line, key)
    IN  IF i = 0 THEN line
        ELSE SubSeq(line, 1, i - 1) \o <<key>> \o value
             \o SubSeq(line, i + 1, Len(line))

\* re.sub(r'key=.*', f'key={value}', line) on one line: '.' stops at the
\* newline, so the leftmost "key=" and the rest of its line are replaced and
\* whatever precedes it on the line is kept.
SubKeyLine(line, key, value) ==
    LET i == FindLexeme(line, key)
    IN  IF i = 0 THEN line ELSE SubSeq(line, 1, i - 1) \o <<key>> \o value

\* re.sub(r'key=.*', f'key={value}', content) on a whole file.
SubKey(content, key, value) ==
    [n \in 1..Len(content) |-> SubKeyLine(content[n], key, value)]

\* --------------------------------------------------------------- the facts
Facts == {"yarn_mappings", "loader_version", "fabric_version",
          "gradle_version", "loom_version"}

\* ------------------------------------------------------ command-line input
Digits == {"0", "1", "2", "4", "20", "21"}

\* re.match(r'^\d+\.\d+(\.\d+)?$', version) on the lexemes of the argument.
validate_minecraft_version(version) ==
    /\ Len(version) \in {3, 5}
    /\ version[1] \in Digits /\ version[2] = "." /\ version[3] \in Digits
    /\ Len(version) = 5 => (version[4] = "." /\ version[5] \in Digits)

\* The same pattern, for the mod version.
validate_mod_version(version) ==
    /\ Len(version) \in {3, 5}
    /\ version[1] \in Digits /\ version[2] = "." /\ version[3] \in Digits
    /\ Len(version) = 5 => (version[4] = "." /\ version[5] \in Digits)

\* Arguments the command line may carry: well-formed and ill-formed ones.
MinecraftArgs == { <<"1", ".", "21", ".", "1">>, <<"1", ".", "x">> }
ModArgs == { <<"1", ".", "2", ".", "0">>, <<"v1">> }

\* ------------------------------------------------------- metadata sources
\* What requests.get(url, timeout=10) and response.json() give: error is a
\* raised exception (timeout, connection error, undecodable body), status the
\* HTTP status, body the decoded JSON.  The list sources answer an array of
\* entries, the GitHub sources an object that may hold "tag_name".
Entry(v) == [hasVersion |-> TRUE, version |-> v]
BadEntry == [hasVersion |-> FALSE, version |-> <<>>]
ListResponse(error, status, body) ==
    [error |-> error, status |-> status, body |-> body]
Release(tag) == [hasTag |-> TRUE, tag_name |-> tag]
NoTagRelease == [hasTag |-> FALSE, tag_name |-> <<>>]
ObjectResponse(error, status, body) ==
    [error |-> error, status |-> status, body |-> body]

YarnResponses(mc) ==
    { ListResponse(TRUE, 0, <<>>),
      ListResponse(FALSE, 404, <<>>),
      ListResponse(FALSE, 200, <<>>),
      ListResponse(FALSE, 200, <<BadEntry>>),
      ListResponse(FALSE, 200, <<Entry(mc \o <<"+build.5">>),
                                 Entry(mc \o <<"+build.4">>)>>) }

FabricApiResponses(mc) ==
    { ListResponse(TRUE, 0, <<>>),
      ListResponse(FALSE, 404, <<>>),
      ListResponse(FALSE, 200, <<>>),
      ListResponse(FALSE, 200, <<BadEntry>>),
      ListResponse(FALSE, 200, <<Entry(<<"0.102.0+">> \o mc)>>) }

GradleResponses ==
    { ObjectResponse(TRUE, 0, NoTagRelease),
      ObjectResponse(FALSE, 403, NoTagRelease),
      ObjectResponse(FALSE, 200, NoTagRelease),
      ObjectResponse(FALSE, 200, Release(<<"v", "8.14">>)),
      ObjectResponse(FALSE, 200, Release(<<"v", "8.12">>)) }

LoomResponses ==
    { ObjectResponse(TRUE, 0, NoTagRelease),
      ObjectResponse(FALSE, 403, NoTagRelease),
      ObjectResponse(FALSE, 200, NoTagRelease),
      ObjectResponse(FALSE, 200, Release(<<"v", "v">>)),
      ObjectResponse(FALSE, 200, Release(<<"1.11">>)),
      ObjectResponse(FALSE, 200, Release(<<"v", "1.9">>)) }

RECURSIVE lstrip_v(_)
\* tag_name.lstrip('v'): every leading 'v' is removed.
lstrip_v(tag) ==
    IF tag # <<>> /\ Head(tag) = "v" THEN lstrip_v(Tail(tag)) ELSE tag

\* The body of get_latest_mappings, get_latest_loader_version and
\* get_latest_fabric_api_version: data[0]["version"] of a 200 answer with a
\* non-empty array, None otherwise (a KeyError is caught like any exception).
FirstVersion(resp) ==
    IF resp.error THEN None
    ELSE IF resp.status # 200 THEN None
    ELSE IF resp.body = <<>> THEN None
    ELSE IF ~resp.body[1].hasVersion THEN None
    ELSE Some(resp.body[1].version)

get_latest_mappings(resp) == FirstVersion(resp)
get_latest_loader_version(resp) == FirstVersion(resp)
get_latest_fabric_api_version(resp) == FirstVersion(resp)

\* The body of get_latest_gradle_version and get_latest_fabric_loom_version:
\* data.get("tag_name", "").lstrip('v') of a 200 answer, None otherwise.
LatestTag(resp) ==
    IF resp.error THEN None
    ELSE IF resp.status # 200 THEN None
    ELSE Some(lstrip_v(IF resp.body.hasTag THEN resp.body.tag_name ELSE <<>>))

get_latest_gradle_version(resp) == LatestTag(resp)
get_latest_fabric_loom_version(resp) == LatestTag(resp)

\* Python truth of an Optional[str]: neither None nor "".
Truthy(opt) == opt # None /\ opt[1] # <<>>

\* d[key] = value on a dict kept as a function.
Put(d, key, value) ==
    [k \in DOMAIN d \cup {key} |-> IF k = key THEN value ELSE d[k]]

\* ------------------------------------------------------- suggest_versions
\* The dict and the warning list suggest_versions builds, as one value.
EmptyPlan == [suggestions |-> << >>, warnings |-> << >>]

\* The fallback pattern of line 119: f"{minecraft_version}+build.1".
YarnFallback(mc) == mc \o <<"+build.1">>
\* The literals of lines 124 and 144.
LoaderStatic == <<"0.16.9">>
GradleFallback == <<"8.12">>

\* Lines 113-121: the yarn mappings, live or the fallback with its warning.
SuggestYarn(plan, mc, yarn_mappings) ==
    IF Truthy(yarn_mappings)
    THEN [plan EXCEPT
            !.suggestions = Put(@, "yarn_mappings", yarn_mappings[1])]
    ELSE [plan EXCEPT
            !.suggestions = Put(@, "yarn_mappings", YarnFallback(mc)),
            !.warnings = Append(@, <<"Yarn mappings for ">> \o mc
                                   \o <<" not found - using fallback ">>
                                   \o YarnFallback(mc))]

\* Lines 123-125: the loader version is the literal; no source is asked.
SuggestLoader(plan) ==
    [plan EXCEPT !.suggestions = Put(@, "loader_version", LoaderStatic)]

\* A mutation of SuggestFabric: without live data a plausible version is
\* guessed, with a fallback warning, as is done for the yarn mappings.
SuggestFabricGuess(plan, mc, fabric_version) ==
    IF Truthy(fabric_version)
    THEN [plan EXCEPT
            !.suggestions = Put(@, "fabric_version", fabric_version[1])]
    ELSE [plan EXCEPT
            !.suggestions = Put(@, "fabric_version", <<"0.100.0+">> \o mc),
            !.warnings = Append(@,
                <<"FABRIC API VERSION NOT FOUND for Minecraft ">> \o mc)]

\* Lines 127-136: the Fabric API version, live or left out with warnings.
SuggestFabric(plan, mc, fabric_version) ==
    IF Truthy(fabric_version)
    THEN [plan EXCEPT
            !.suggestions = Put(@, "fabric_version", fabric_version[1])]
    ELSE [plan EXCEPT
            !.warnings = @ \o
              << <<"FABRIC API VERSION NOT FOUND for Minecraft ">> \o mc,
                 <<"You MUST manually check https://fabricmc.net/develop/ or https://modrinth.com/mod/fabric-api">>,
                 <<"to find the correct Fabric API version and update gradle.properties manually!">> >>]

\* Lines 138-146: the Gradle version, live or the fallback with its warning.
SuggestGradle(plan, gradle_version) ==
    IF Truthy(gradle_version)
    THEN [plan EXCEPT
            !.suggestions = Put(@, "gradle_version", gradle_version[1])]
    ELSE [plan EXCEPT
            !.suggestions = Put(@, "gradle_version", GradleFallback),
            !.warnings = Append(@,
                <<"Could not fetch latest Gradle version - using fallback ">>
                \o GradleFallback)]

\* A mutation of SuggestLoom: a live version is taken without the caution.
SuggestLoomSilent(plan, loom_version) ==
    IF Truthy(loom_version)
    THEN [plan EXCEPT
            !.suggestions = Put(@, "loom_version", loom_version[1])]
    ELSE [plan EXCEPT
            !.warnings = @ \o
              << <<"FABRIC LOOM VERSION NOT FOUND">>,
                 <<"You MUST manually check https://github.com/FabricMC/fabric-loom/releases">>,
                 <<"to find a compatible Loom version and update build.gradle manually!">> >>]

\* Lines 148-159: the Loom version, live with a caution or left out with
\* warnings.
SuggestLoom(plan, loom_version) ==
    IF Truthy(loom_version)
    THEN [plan EXCEPT
            !.suggestions = Put(@, "loom_version", loom_version[1]),
            !.warnings = @ \o
              << <<"Fabric Loom ">> \o loom_version[1]
                   \o <<" may not be available in plugin repositories yet!">>,
                 <<"If build fails, manually revert build.gradle to use version 1.10.1 or 1.9">> >>]
    ELSE [plan EXCEPT
            !.warnings = @ \o
              << <<"FABRIC LOOM VERSION NOT FOUND">>,
                 <<"You MUST manually check https://github.com/FabricMC/fabric-loom/releases">>,
                 <<"to find a compatible Loom version and update build.gradle manually!">> >>]

\* ---------------------------------------------------------- target files
Targets == <<"gradle.properties", "fabric.mod.json",
             "gradle-wrapper.properties", "build.gradle">>

File(content) == [exists |-> TRUE, content |-> content]
\* A path Path.exists() answers False for.
AbsentText == [exists |-> FALSE, content |-> << >>]

\* What an update_* call gives back: whether it raised, the file it leaves
\* and what it reported.
Result(raised, file, report) ==
    [raised |-> raised, file |-> file, report |-> report]

\* Lines 166-195.
update_gradle_properties(file, mc, modv, sugg) ==
    IF ~file.exists THEN Result(TRUE, file, "FileNotFoundError")
    ELSE
      LET c1 == SubKey(file.content, "minecraft_version=", mc)
          c2 == SubKey(c1, "mod_version=", mc \o <<"-">> \o modv)
          c3 == IF "yarn_mappings" \in DOMAIN sugg
                THEN SubKey(c2, "yarn_mappings=", sugg["yarn_mappings"])
                ELSE c2
          c4 == IF "loader_version" \in DOMAIN sugg
                THEN SubKey(c3, "loader_version=", sugg["loader_version"])
                ELSE c3
          c5 == IF "fabric_version" \in DOMAIN sugg
                THEN SubKey(c4, "fabric_version=", sugg["fabric_version"])
                ELSE c4
      IN  Result(FALSE, File(c5), "updated")

\* The prefix of new_url, line 212.
DistributionPrefix == "https\\://services.gradle.org/distributions/gradle-"

\* Lines 197-216.
update_gradle_wrapper(file, sugg) ==
    IF ~file.exists THEN Result(TRUE, file, "FileNotFoundError")
    ELSE IF "gradle_version" \notin DOMAIN sugg
    THEN Result(FALSE, file, "skipped")
    ELSE
      LET new_url == <<DistributionPrefix>> \o sugg["gradle_version"]
                     \o <<"-bin.zip">>
      IN  Result(FALSE,
                 File(SubKey(file.content, "distributionUrl=", new_url)),
                 "updated")

\* The literal head of the pattern of line 234, and the quote that ends it.
LoomDecl == "id 'fabric-loom' version '"
Quote == "'"

\* Index of the first Quote of text at or after position i, 0 when none.
NextQuote(text, i) ==
    IF \E j \in i..Len(text) : text[j] = Quote
    THEN CHOOSE j \in i..Len(text) :
            /\ text[j] = Quote
            /\ \A k \in i..(j - 1) : text[k] # Quote
    ELSE 0

RECURSIVE SubLoom(_, _)
\* re.sub(r"id 'fabric-loom' version '[^']*'", f"id 'fabric-loom' version
\* '{loom_version}'", content): every match, left to right; [^']* runs over
\* line ends up to the next quote.
SubLoom(text, loom_version) ==
    IF text = << >> THEN << >>
    ELSE IF Head(text) = LoomDecl /\ NextQuote(text, 2) # 0
    THEN <<LoomDecl>> \o loom_version \o <<Quote>>
         \o SubLoom(SubSeq(text, NextQuote(text, 2) + 1, Len(text)),
                    loom_version)
    ELSE <<Head(text)>> \o SubLoom(Tail(text), loom_version)

\* A mutation of update_build_gradle: the result of re.sub is written and
\* reported as an update without comparing it with what was read.
update_build_gradle_unchecked(file, sugg) ==
    IF ~file.exists THEN Result(TRUE, file, "FileNotFoundError")
    ELSE IF "loom_version" \notin DOMAIN sugg
    THEN Result(FALSE, file, "no loom version")
    ELSE Result(FALSE, File(SubLoom(file.content, sugg["loom_version"])),
                "updated")

\* Lines 218-244.
update_build_gradle(file, sugg) ==
    IF ~file.exists THEN Result(TRUE, file, "FileNotFoundError")
    ELSE IF "loom_version" \notin DOMAIN sugg
    THEN Result(FALSE, file, "no loom version")
    ELSE
      LET new_content == SubLoom(file.content, sugg["loom_version"])
      IN  IF new_content # file.content
          THEN Result(FALSE, File(new_content), "updated")
          ELSE Result(FALSE, file, "could not update")

\* A JSON document as fabric.mod.json holds it: the "depends" mapping, when
\* there is one, as its (key, value) pairs in order; rest stands for the
\* other members.
Doc(hasDepends, depends) ==
    [rest |-> "id, version, entrypoints", hasDepends |-> hasDepends,
     depends |-> depends]
\* The text of a JSON file: whether json.load accepts it, how it is laid out
\* and the document it encodes.
Json(wellformed, layout, doc) ==
    [wellformed |-> wellformed, layout |-> layout, doc |-> doc]
AbsentJson == [exists |-> FALSE, content |-> Json(FALSE, "", Doc(FALSE, << >>))]

\* d[key] = value on a dict kept as its pairs in insertion order.
DictSet(d, key, value) ==
    IF \E i \in 1..Len(d) : d[i][1] = key
    THEN [i \in 1..Len(d) |-> IF d[i][1] = key THEN <<key, value>> ELSE d[i]]
    ELSE Append(d, <<key, value>>)

\* key in d.
DictHas(d, key) == \E i \in 1..Len(d) : d[i][1] = key

\* d[key], for a key of d.
DictGet(d, key) == d[CHOOSE i \in 1..Len(d) : d[i][1] = key][2]

\* A mutation of update_fabric_mod_json: without a fabric_version the value
\* read with .get("fabric-api", "*") is written back, which adds the
\* wildcard to a mapping that had no fabric-api entry.
update_fabric_mod_json_default(file, mc, sugg) ==
    IF ~file.exists THEN Result(TRUE, file, "FileNotFoundError")
    ELSE IF ~file.content.wellformed
    THEN Result(TRUE, file, "JSONDecodeError")
    ELSE
      LET mod_json == file.content.doc
          d1 == DictSet(mod_json.depends, "minecraft", <<"~">> \o mc)
          d2 == IF "loader_version" \in DOMAIN sugg
                THEN DictSet(d1, "fabricloader",
                             <<">=">> \o sugg["loader_version"])
                ELSE d1
          d3 == IF "fabric_version" \in DOMAIN sugg
                THEN DictSet(d2, "fabric-api", <<"*">>)
                ELSE DictSet(d2, "fabric-api",
                             IF DictHas(d2, "fabric-api")
                             THEN DictGet(d2, "fabric-api") ELSE <<"*">>)
          new_json == IF mod_json.hasDepends
                      THEN [mod_json EXCEPT !.depends = d3]
                      ELSE mod_json
      IN  Result(FALSE, File(Json(TRUE, "indent=2", new_json)), "updated")

\* A mutation of update_fabric_mod_json: the version that was found is
\* pinned instead of the wildcard.
update_fabric_mod_json_pinned(file, mc, sugg) ==
    IF ~file.exists THEN Result(TRUE, file, "FileNotFoundError")
    ELSE IF ~file.content.wellformed
    THEN Result(TRUE, file, "JSONDecodeError")
    ELSE
      LET mod_json == file.content.doc
          d1 == DictSet(mod_json.depends, "minecraft", <<"~">> \o mc)
          d2 == IF "loader_version" \in DOMAIN sugg
                THEN DictSet(d1, "fabricloader",
                             <<">=">> \o sugg["loader_version"])
                ELSE d1
          d3 == IF "fabric_version" \in DOMAIN sugg
                THEN DictSet(d2, "fabric-api",
                             <<">=">> \o sugg["fabric_version"])
                ELSE d2
          new_json == IF mod_json.hasDepends
                      THEN [mod_json EXCEPT !.depends = d3]
                      ELSE mod_json
      IN  Result(FALSE, File(Json(TRUE, "indent=2", new_json)), "updated")

\* Lines 246-280.
update_fabric_mod_json(file, mc, sugg) ==
    IF ~file.exists THEN Result(TRUE, file, "FileNotFoundError")
    ELSE IF ~file.content.wellformed
    THEN Result(TRUE, file, "JSONDecodeError")
    ELSE
      LET mod_json == file.content.doc
          d1 == DictSet(mod_json.depends, "minecraft", <<"~">> \o mc)
          d2 == IF "loader_version" \in DOMAIN sugg
                THEN DictSet(d1, "fabricloader",
                             <<">=">> \o sugg["loader_version"])
                ELSE d1
          d3 == IF "fabric_version" \in DOMAIN sugg
                THEN DictSet(d2, "fabric-api", <<"*">>)
                ELSE d2
          new_json == IF mod_json.hasDepends
                      THEN [mod_json EXCEPT !.depends = d3]
                      ELSE mod_json
      IN  Result(FALSE, File(Json(TRUE, "indent=2", new_json)), "updated")

\* ------------------------------------------------- contents of the project
\* Lines a gradle.properties may hold: the five recognised keys, a comment
\* that quotes a key, a key that ends in a recognised key, a blank line and
\* an unrelated property.
PropertyLines ==
    << <<"minecraft_version=", "1.20.4">>,
       <<"mod_version=", "1.20.4-1.1.0">>,
       <<"yarn_mappings=", "1.20.4+build.3">>,
       <<"loader_version=", "0.15.0">>,
       <<"fabric_version=", "0.50.0">>,
       <<"# set ", "fabric_version=", "from fabricmc.net/develop">>,
       <<"min_", "loader_version=", "0.14.0">>,
       << >>,
       <<"org.gradle.jvmargs=", "-Xmx1G">> >>

\* The strictly increasing index sequences of length n over 1..m.
Increasing(n, m) ==
    { s \in [1..n -> 1..m] : \A i \in 1..n, j \in 1..n : i < j => s[i] < s[j] }

\* The gradle.properties of the model: up to MaxLines of PropertyLines, in
\* their order.
PropertyFiles ==
    { File([i \in DOMAIN s |-> PropertyLines[s[i]]]) :
        s \in UNION { Increasing(n, Len(PropertyLines)) : n \in 0..MaxLines } }

UsualManifest ==
    Doc(TRUE, << <<"fabricloader", <<">=0.15.0">> >>,
                 <<"minecraft", <<"~1.20.4">> >>,
                 <<"java", <<">=21">> >>,
                 <<"fabric-api", <<">=0.50.0">> >> >>)

ManifestFiles ==
    { AbsentJson,
      File(Json(FALSE, "tabs", Doc(FALSE, << >>))),
      File(Json(TRUE, "tabs", Doc(FALSE, << >>))),
      File(Json(TRUE, "indent=2", Doc(TRUE, << <<"java", <<">=21">> >> >>))),
      File(Json(TRUE, "indent=2", UsualManifest)),
      File(Json(TRUE, "tabs",
                Doc(TRUE, << <<"fabric-api", <<"*">> >> >>))) }

WrapperFiles ==
    { AbsentText,
      File(<< <<"distributionBase=GRADLE_USER_HOME">> >>),
      File(<< <<"#", "distributionUrl=", "see gradle.org">>,
              <<"distributionUrl=", DistributionPrefix, "8.12", "-bin.zip">> >>) }

BuildScripts ==
    { AbsentText,
      File(<<"plugins {", "\n", "id \"fabric-loom\" version \"1.9\"", "\n",
             "}", "\n", "version = project.mod_version", "\n">>),
      File(<<"plugins {", "\n", "\t", LoomDecl, "1.11", Quote, "\n",
             "\t", "id 'maven-publish", Quote, "\n", "}", "\n">>),
      File(<<"// ", LoomDecl, "1.8", Quote, "\n",
             "plugins { ", LoomDecl, "1.9", Quote, " }", "\n">>) }

\* The project as the repository ships it.
UsualDisk ==
    [t \in {Targets[i] : i \in 1..Len(Targets)} |->
       CASE t = "gradle.properties" ->
              File(<< PropertyLines[9], PropertyLines[1], PropertyLines[2],
                      PropertyLines[3], PropertyLines[4], PropertyLines[5] >>)
         [] t = "fabric.mod.json" -> File(Json(TRUE, "tabs", UsualManifest))
         [] t = "gradle-wrapper.properties" ->
              File(<< <<"distributionBase=GRADLE_USER_HOME">>,
                      <<"distributionUrl=", DistributionPrefix, "8.10",
                        "-bin.zip">> >>)
         [] t = "build.gradle" ->
              File(<<"plugins {", "\n", "\t", LoomDecl, "1.10-SNAPSHOT",
                     Quote, "\n", "}", "\n">>)]

\* The contents target t may have.
FilesOf(t) ==
    CASE t = "gradle.properties" -> PropertyFiles \cup {AbsentText}
      [] t = "fabric.mod.json" -> ManifestFiles
      [] t = "gradle-wrapper.properties" -> WrapperFiles
      [] t = "build.gradle" -> BuildScripts

\* The projects a run may start in: the usual one, or the usual one with one
\* target file replaced.
Disks ==
    {UsualDisk} \cup
    UNION { { [UsualDisk EXCEPT ![t] = f] : f \in FilesOf(t) } :
              t \in {Targets[i] : i \in 1..Len(Targets)} }

\* --------------------------------------------------------------- the run
Init ==
    /\ pc = "main"
    /\ minecraft_version \in MinecraftArgs
    /\ mod_version \in ModArgs
    /\ fetched = << >>
    /\ suggestions = << >>
    /\ warnings = << >>
    /\ disk \in Disks
    /\ disk0 = disk
    /\ outcome = [t \in {Targets[i] : i \in 1..Len(Targets)} |-> "pending"]
    /\ shown = << >>
    /\ stages = << >>
    /\ printed = << >>
    /\ gen_sources_success = None
    /\ vscode_success = None
    /\ build_success = None
    /\ exit_code = None

\* sys.exit(code).
Exit(code) == pc' = "exit" /\ exit_code' = Some(code)

\* A mutation of ExitStatus: the run always ends with status 0.
ExitStatusZero(success) == 0

\* main, line 643: the status for what switch_version returned.
ExitStatus(success) == IF success THEN 0 ELSE 1

\* A mutation of display_warnings: the numbered list starts at the second
\* warning.
display_warnings_rest(w) == IF w # << >> THEN Append(shown, Tail(w)) ELSE shown

\* display_warnings (lines 387-418) under the callers' "if warnings": the
\* list is printed as it stands.
display_warnings(w) == IF w # << >> THEN Append(shown, w) ELSE shown

\* main, lines 621-641: validation and the project check, then
\* switch_version up to its first request.
Main ==
    /\ pc = "main"
    /\ IF ~validate_minecraft_version(minecraft_version) THEN Exit(1)
       ELSE IF ~validate_mod_version(mod_version) THEN Exit(1)
       ELSE IF ~disk["gradle.properties"].exists THEN Exit(1)
       ELSE pc' = "yarn" /\ UNCHANGED exit_code
    /\ UNCHANGED <<minecraft_version, mod_version, fetched, suggestions,
                   warnings, disk, disk0, outcome, shown, stages, printed,
                   gen_sources_success, vscode_success, build_success>>

Unresolved == <<minecraft_version, mod_version, disk, disk0, outcome, stages,
                printed, gen_sources_success, vscode_success, build_success,
                exit_code>>

\* suggest_versions, lines 112-125: the yarn request and the loader literal.
QueryYarn ==
    /\ pc = "yarn"
    /\ \E resp \in YarnResponses(minecraft_version) :
         LET yarn_mappings == get_latest_mappings(resp)
             plan == SuggestLoader(SuggestYarn(EmptyPlan, minecraft_version,
                                               yarn_mappings))
         IN  /\ fetched' = Put(fetched, "yarn_mappings", yarn_mappings)
             /\ suggestions' = plan.suggestions
             /\ warnings' = plan.warnings
    /\ pc' = "fabric"
    /\ UNCHANGED <<shown, Unresolved>>

\* suggest_versions, lines 127-136.
QueryFabricApi ==
    /\ pc = "fabric"
    /\ \E resp \in FabricApiResponses(minecraft_version) :
         LET fabric_version == get_latest_fabric_api_version(resp)
             plan == SuggestFabric([suggestions |-> suggestions,
                                    warnings |-> warnings],
                                   minecraft_version, fabric_version)
         IN  /\ fetched' = Put(fetched, "fabric_version", fabric_version)
             /\ suggestions' = plan.suggestions
             /\ warnings' = plan.warnings
    /\ pc' = "gradle"
    /\ UNCHANGED <<shown, Unresolved>>

\* suggest_versions, lines 138-146.
QueryGradle ==
    /\ pc = "gradle"
    /\ \E resp \in GradleResponses :
         LET gradle_version == get_latest_gradle_version(resp)
             plan == SuggestGradle([suggestions |-> suggestions,
                                    warnings |-> warnings], gradle_version)
         IN  /\ fetched' = Put(fetched, "gradle_version", gradle_version)
             /\ suggestions' = plan.suggestions
             /\ warnings' = plan.warnings
    /\ pc' = "loom"
    /\ UNCHANGED <<shown, Unresolved>>

\* suggest_versions, lines 148-164, and switch_version up to its prompt
\* (lines 460-483): the first display of the warnings.
QueryLoom ==
    /\ pc = "loom"
    /\ \E resp \in LoomResponses :
         LET loom_version == get_latest_fabric_loom_version(resp)
             plan == SuggestLoom([suggestions |-> suggestions,
                                  warnings |-> warnings], loom_version)
         IN  /\ fetched' = Put(fetched, "loom_version", loom_version)
             /\ suggestions' = plan.suggestions
             /\ warnings' = plan.warnings
             /\ shown' = display_warnings(plan.warnings)
    /\ pc' = "confirm"
    /\ UNCHANGED Unresolved

\* switch_version, lines 484-488: --yes or the operator's answer.
Confirm ==
    /\ pc = "confirm"
    /\ \E proceed \in BOOLEAN :
         IF proceed THEN pc' = "gradle.properties" /\ UNCHANGED exit_code
         ELSE Exit(ExitStatus(FALSE))
    /\ UNCHANGED <<minecraft_version, mod_version, fetched, suggestions,
                   warnings, disk, disk0, outcome, shown, stages, printed,
                   gen_sources_success, vscode_success, build_success>>

\* A mutation of Patched: an update that raises is passed over and the run
\* goes on with the next statement.
PatchedSwallow(t, r, next_pc) ==
    /\ disk' = [disk EXCEPT ![t] = r.file]
    /\ outcome' = [outcome EXCEPT ![t] = r.report]
    /\ pc' = next_pc
    /\ shown' = IF next_pc = "clean" THEN display_warnings(warnings)
                ELSE shown
    /\ UNCHANGED <<minecraft_version, mod_version, fetched, suggestions,
                   warnings, disk0, stages, printed, gen_sources_success,
                   vscode_success, build_success, exit_code>>

\* What switch_version does with the result r of the update of target t:
\* the except branch of lines 572-583 when it raised, the next statement
\* (next_pc) when it returned.
Patched(t, r, next_pc) ==
    /\ disk' = [disk EXCEPT ![t] = r.file]
    /\ outcome' = [outcome EXCEPT ![t] = r.report]
    /\ IF r.raised
       THEN shown' = display_warnings(warnings) /\ Exit(ExitStatus(FALSE))
       ELSE /\ pc' = next_pc
            /\ shown' = IF next_pc = "clean" THEN display_warnings(warnings)
                        ELSE shown
            /\ UNCHANGED exit_code
    /\ UNCHANGED <<minecraft_version, mod_version, fetched, suggestions,
                   warnings, disk0, stages, printed, gen_sources_success,
                   vscode_success, build_success>>

\* Line 492.
PatchGradleProperties ==
    /\ pc = "gradle.properties"
    /\ Patched("gradle.properties",
               update_gradle_properties(disk["gradle.properties"],
                   minecraft_version, mod_version, suggestions),
               "fabric.mod.json")

\* Line 493.
PatchFabricModJson ==
    /\ pc = "fabric.mod.json"
    /\ Patched("fabric.mod.json",
               update_fabric_mod_json(disk["fabric.mod.json"],
                   minecraft_version, suggestions),
               "gradle-wrapper.properties")

\* Line 494.
PatchGradleWrapper ==
    /\ pc = "gradle-wrapper.properties"
    /\ Patched("gradle-wrapper.properties",
               update_gradle_wrapper(disk["gradle-wrapper.properties"],
                                     suggestions),
               "build.gradle")

\* Lines 495-502: the last update, then the warnings again.
PatchBuildGradle ==
    /\ pc = "build.gradle"
    /\ Patched("build.gradle",
               update_build_gradle(disk["build.gradle"], suggestions),
               "clean")

Resolved == <<minecraft_version, mod_version, fetched, suggestions, warnings,
              disk, disk0, outcome>>

\* The lines switch_version prints when a stage before the build failed
\* (lines 507, 513, 519).
CleanFailedLine == "Could not clean project, continuing anyway..."
GenSourcesFailedLine ==
    "genSources failed - this may cause issues with IDE integration"
VscodeFailedLine ==
    "VS Code setup failed - IDE integration may not work properly"
\* The lines that open the report of lines 525-570.
SuccessLine == "Version switch completed successfully!"
SetupStepsLine == "Some setup steps failed. You may need to:"
BuildFailedLine == "Version switch completed, but build failed."

\* A mutation of FinalReport: the note on failed setup steps is printed only
\* when both genSources and vscode failed.
FinalReportBothFailed(build_ok, gen_ok, vscode_ok, warns) ==
    IF build_ok
    THEN <<SuccessLine>>
         \o (IF warns # << >>
             THEN <<"IMPORTANT: Some versions could not be automatically determined!">>
             ELSE << >>)
         \o (IF ~gen_ok /\ ~vscode_ok THEN <<SetupStepsLine>> ELSE << >>)
         \o (IF ~gen_ok /\ ~vscode_ok
             THEN <<"  - Run 'gradlew genSources' manually",
                    "  - Run 'gradlew vscode' manually for VS Code integration">>
             ELSE << >>)
    ELSE <<BuildFailedLine>>
         \o (IF warns # << >>
             THEN <<"6. CRITICAL: Review the version warnings displayed above!">>
             ELSE << >>)
         \o (IF ~gen_ok THEN <<"9. Try running 'gradlew genSources' manually">>
             ELSE << >>)
         \o (IF ~vscode_ok THEN <<"10. Try running 'gradlew vscode' manually">>
             ELSE << >>)

\* Lines 525-565: what switch_version prints once the build stage returned.
FinalReport(build_ok, gen_ok, vscode_ok, warns) ==
    IF build_ok
    THEN <<SuccessLine>>
         \o (IF warns # << >>
             THEN <<"IMPORTANT: Some versions could not be automatically determined!">>
             ELSE << >>)
         \o (IF ~gen_ok \/ ~vscode_ok THEN <<SetupStepsLine>> ELSE << >>)
         \o (IF ~gen_ok THEN <<"  - Run 'gradlew genSources' manually">>
             ELSE << >>)
         \o (IF ~vscode_ok
             THEN <<"  - Run 'gradlew vscode' manually for VS Code integration">>
             ELSE << >>)
    ELSE <<BuildFailedLine>>
         \o (IF warns # << >>
             THEN <<"6. CRITICAL: Review the version warnings displayed above!">>
             ELSE << >>)
         \o (IF ~gen_ok THEN <<"9. Try running 'gradlew genSources' manually">>
             ELSE << >>)
         \o (IF ~vscode_ok THEN <<"10. Try running 'gradlew vscode' manually">>
             ELSE << >>)

\* What a gradle stage can give: exit status 0 (True), a non-zero status, a
\* timeout or another exception (False, lines 299-311 and alike).
StageResults == BOOLEAN

\* A mutation of Clean: a failed clean ends the run like a failed build.
CleanRequired ==
    /\ pc = "clean"
    /\ \E ok \in StageResults :
         /\ stages' = Append(stages, "clean")
         /\ IF ok
            THEN pc' = "genSources" /\ printed' = printed
                 /\ UNCHANGED exit_code
            ELSE printed' = printed \o <<CleanFailedLine, BuildFailedLine>>
                 /\ Exit(ExitStatus(FALSE))
    /\ UNCHANGED <<Resolved, shown, gen_sources_success, vscode_success,
                   build_success>>

\* Lines 504-507, clean_project: its result is printed and not kept.
Clean ==
    /\ pc = "clean"
    /\ \E ok \in StageResults :
         /\ stages' = Append(stages, "clean")
         /\ printed' = IF ok THEN printed ELSE Append(printed, CleanFailedLine)
    /\ pc' = "genSources"
    /\ UNCHANGED <<Resolved, shown, gen_sources_success, vscode_success,
                   build_success, exit_code>>

\* A mutation of GenSources: a failed genSources ends the run.
GenSourcesRequired ==
    /\ pc = "genSources"
    /\ \E ok \in StageResults :
         /\ stages' = Append(stages, "genSources")
         /\ gen_sources_success' = Some(ok)
         /\ IF ok
            THEN /\ pc' = "vscode"
                 /\ UNCHANGED <<printed, exit_code>>
            ELSE /\ printed' = Append(printed, GenSourcesFailedLine)
                 /\ Exit(ExitStatus(FALSE))
    /\ UNCHANGED <<Resolved, shown, vscode_success, build_success>>

\* Lines 509-513, run_gen_sources.
GenSources ==
    /\ pc = "genSources"
    /\ \E ok \in StageResults :
         /\ stages' = Append(stages, "genSources")
         /\ gen_sources_success' = Some(ok)
         /\ printed' = IF ok THEN printed
                       ELSE Append(printed, GenSourcesFailedLine)
    /\ pc' = "vscode"
    /\ UNCHANGED <<Resolved, shown, vscode_success, build_success, exit_code>>

\* Lines 515-519, run_vscode_setup.
VscodeSetup ==
    /\ pc = "vscode"
    /\ \E ok \in StageResults :
         /\ stages' = Append(stages, "vscode")
         /\ vscode_success' = Some(ok)
         /\ printed' = IF ok THEN printed
                       ELSE Append(printed, VscodeFailedLine)
    /\ pc' = "build"
    /\ UNCHANGED <<Resolved, shown, gen_sources_success, build_success,
                   exit_code>>

\* Lines 521-570 and main's sys.exit (line 643): build_project, the report
\* and the status.
Build ==
    /\ pc = "build"
    /\ \E ok \in StageResults :
         /\ stages' = Append(stages, "build")
         /\ build_success' = Some(ok)
         /\ printed' = printed \o FinalReport(ok, gen_sources_success[1],
                                              vscode_success[1], warnings)
         /\ shown' = IF ok THEN shown ELSE display_warnings(warnings)
         /\ Exit(ExitStatus(ok))
    /\ UNCHANGED <<Resolved, gen_sources_success, vscode_success>>

Next ==
    \/ Main
    \/ QueryYarn \/ QueryFabricApi \/ QueryGradle \/ QueryLoom
    \/ Confirm
    \/ PatchGradleProperties \/ PatchFabricModJson
    \/ PatchGradleWrapper \/ PatchBuildGradle
    \/ Clean \/ GenSources \/ VscodeSetup \/ Build

Spec == Init /\ [][Next]_vars

\* Every gradle verb is run with a timeout (lines 291, 322, 365, 429) and
\* every exception of the subprocess is caught, so a stage that was started
\* returns.
FairStages ==
    Spec /\ WF_vars(Clean) /\ WF_vars(GenSources) /\ WF_vars(VscodeSetup)
         /\ WF_vars(Build)

\* ------------------------------------------------- the plan and its facts
\* suggest_versions has returned: its last request has been answered.
Planned == "loom_version" \in DOMAIN fetched

\* The provenance of fact f in the plan suggest_versions built: unresolved
\* when the dict has no entry for it, confirmed when the entry is what a
\* request answered, fallback when it is a literal or a derived value.
Provenance(f) ==
    IF f \notin DOMAIN suggestions THEN "unresolved"
    ELSE IF /\ f \in DOMAIN fetched
            /\ Truthy(fetched[f])
            /\ suggestions[f] = fetched[f][1]
    THEN "confirmed"
    ELSE "fallback"

\* The fact a warning string of suggest_versions is about ("" for a
\* continuation line), read off the way the string begins.
Topic(w) ==
    CASE w[1] = "Yarn mappings for " -> "yarn_mappings"
      [] w[1] = "FABRIC API VERSION NOT FOUND for Minecraft " ->
             "fabric_version"
      [] w[1] = "to find the correct Fabric API version and update gradle.properties manually!" ->
             "fabric_version"
      [] w[1] = "You MUST manually check https://fabricmc.net/develop/ or https://modrinth.com/mod/fabric-api" ->
             "fabric_version"
      [] w[1] = "Could not fetch latest Gradle version - using fallback " ->
             "gradle_version"
      [] w[1] = "Fabric Loom " -> "loom_version"
      [] w[1] = "If build fails, manually revert build.gradle to use version 1.10.1 or 1.9" ->
             "loom_version"
      [] w[1] = "FABRIC LOOM VERSION NOT FOUND" -> "loom_version"
      [] w[1] = "You MUST manually check https://github.com/FabricMC/fabric-loom/releases" ->
             "loom_version"
      [] w[1] = "to find a compatible Loom version and update build.gradle manually!" ->
             "loom_version"
      [] OTHER -> ""

\* The plan holds a warning about fact f.
Warned(f) == \E i \in 1..Len(warnings) : Topic(warnings[i]) = f

\* The plan holds a warning that sends the operator to a manual lookup of f.
ManualLookup(f) ==
    \E i \in 1..Len(warnings) :
       /\ Topic(warnings[i]) = f
       /\ \/ warnings[i][1] = "You MUST manually check https://fabricmc.net/develop/ or https://modrinth.com/mod/fabric-api"
          \/ warnings[i][1] = "You MUST manually check https://github.com/FabricMC/fabric-loom/releases"

\* The plan holds the caution that the newest release of f may not be in the
\* plugin repository yet.
Cautioned(f) ==
    \E i \in 1..Len(warnings) :
       /\ Topic(warnings[i]) = f
       /\ warnings[i][Len(warnings[i])] =
              " may not be available in plugin repositories yet!"

\* The request for fact f was made and gave nothing usable.
NoLiveData(f) == f \in DOMAIN fetched /\ ~Truthy(fetched[f])
\* The request for fact f was made and gave a value.
LiveData(f) == f \in DOMAIN fetched /\ Truthy(fetched[f])

\* ------------------------------------------------------------------ C1
\* C1 (as claimed): in the plan suggest_versions returns every fact has one
\* provenance, and every fallback or unresolved fact has a warning about it.
C1_EveryGuessWarned ==
    Planned =>
      \A f \in Facts :
         /\ Provenance(f) \in {"confirmed", "fallback", "unresolved"}
         /\ Provenance(f) \in {"fallback", "unresolved"} => Warned(f)

\* ------------------------------------------------------------------ C2
\* C2 (as claimed): each of the five facts is asked of its source, a
\* non-empty answer is the plan's value, and a default stands in only when
\* the request failed or gave nothing.
C2_EveryFactQueried ==
    Planned =>
      \A f \in Facts :
         /\ f \in DOMAIN fetched
         /\ Truthy(fetched[f]) => Provenance(f) = "confirmed"
         /\ Provenance(f) = "fallback" => ~Truthy(fetched[f])

\* ------------------------------------------------------------------ C3
\* C3 (as claimed): a fabric_version, gradle_version or loom_version whose
\* source gave nothing usable has no value in the plan and a warning that
\* sends the operator to a manual lookup.
C3_NoGuessForAnyOfThree ==
    Planned =>
      \A f \in {"fabric_version", "gradle_version", "loom_version"} :
         NoLiveData(f) => (f \notin DOMAIN suggestions /\ ManualLookup(f))

\* C3 (amended): that holds of fabric_version and loom_version; a
\* gradle_version whose source gave nothing usable is the fallback 8.12,
\* with the warning that names the fallback.
C3_NoGuessForFabricAndLoom ==
    Planned =>
      /\ \A f \in {"fabric_version", "loom_version"} :
            NoLiveData(f) => (f \notin DOMAIN suggestions /\ ManualLookup(f))
      /\ NoLiveData("gradle_version") =>
            /\ "gradle_version" \in DOMAIN suggestions
            /\ suggestions["gradle_version"] = GradleFallback
            /\ Provenance("gradle_version") = "fallback"
            /\ Warned("gradle_version")
            /\ ~ManualLookup("gradle_version")

\* C3 witness: none of the three sources gave anything usable.
C3_Witness ==
    /\ Planned
    /\ NoLiveData("fabric_version")
    /\ NoLiveData("gradle_version")
    /\ NoLiveData("loom_version")

\* ------------------------------------------------------------------ C4
\* C4 (as claimed): a live gradle_version or loom_version always comes with
\* the caution that the newest release may not be in the plugin repository.
C4_CautionForBothToolchainFacts ==
    Planned =>
      \A f \in {"gradle_version", "loom_version"} :
         LiveData(f) => Cautioned(f)

\* C4 (amended): a live loom_version always comes with that caution, naming
\* the version; a live gradle_version comes with no warning at all.
C4_CautionForLoom ==
    Planned =>
      /\ LiveData("loom_version") =>
            /\ Provenance("loom_version") = "confirmed"
            /\ Cautioned("loom_version")
            /\ \E i \in 1..Len(warnings) :
                  warnings[i] = <<"Fabric Loom ">> \o suggestions["loom_version"]
                      \o <<" may not be available in plugin repositories yet!">>
      /\ LiveData("gradle_version") => ~Warned("gradle_version")

\* C4 witness: both toolchain sources answered a version.
C4_Witness ==
    /\ Planned
    /\ LiveData("loom_version")
    /\ LiveData("gradle_version")

\* ----------------------------------------------------- the patch set
GP == "gradle.properties"
FMJ == "fabric.mod.json"
GW == "gradle-wrapper.properties"
BG == "build.gradle"

\* The try block of switch_version, lines 490-495, on a whole project d: the
\* four updates in their order, up to the first that raises.
ApplyPatchSet(d, mc, modv, sugg) ==
    LET r1 == update_gradle_properties(d[GP], mc, modv, sugg)
        d1 == [d EXCEPT ![GP] = r1.file]
        r2 == update_fabric_mod_json(d1[FMJ], mc, sugg)
        d2 == [d1 EXCEPT ![FMJ] = r2.file]
        r3 == update_gradle_wrapper(d2[GW], sugg)
        d3 == [d2 EXCEPT ![GW] = r3.file]
        r4 == update_build_gradle(d3[BG], sugg)
        d4 == [d3 EXCEPT ![BG] = r4.file]
    IN  IF r1.raised THEN d1
        ELSE IF r2.raised THEN d2
        ELSE IF r3.raised THEN d3
        ELSE d4

\* The patch set has been applied: every update returned, or one raised.
PatchSetDone ==
    \/ pc \in {"clean", "genSources", "vscode", "build"}
    \/ pc = "exit" /\ outcome[GP] # "pending"

\* Every update of the patch set returned.
PatchSetReturned ==
    \/ pc \in {"clean", "genSources", "vscode", "build"}
    \/ pc = "exit" /\ stages # << >>

\* What an update reports when it raised.
Errors == {"FileNotFoundError", "JSONDecodeError"}

\* The value a line gives to key: what follows "key=" on it, None when the
\* line does not hold "key=".
FieldOf(line, key) ==
    LET i == FindLexeme(line, key)
    IN  IF i = 0 THEN None ELSE Some(SubSeq(line, i + 1, Len(line)))

\* The values the lines of a key=value file give to key, line by line.
Fields(file, key) ==
    [n \in 1..Len(file.content) |-> FieldOf(file.content[n], key)]

\* Every line of file that holds "key=" gives it the value.
FieldsAre(file, key, value) ==
    \A n \in 1..Len(file.content) :
       FieldOf(file.content[n], key) \in {None, Some(value)}

\* The entry of the "depends" mapping of a manifest for key, None without.
Depends(file, key) ==
    IF file.content.doc.hasDepends /\ DictHas(file.content.doc.depends, key)
    THEN Some(DictGet(file.content.doc.depends, key))
    ELSE None

\* Position i of a build script lies inside the quoted version of a
\* fabric-loom declaration: behind a declaration, before the quote that
\* closes it.
InVersion(text, i) ==
    /\ text[i] # Quote
    /\ \E d \in 1..(i - 1) :
          /\ text[d] = LoomDecl
          /\ \A k \in (d + 1)..i : text[k] # Quote
    /\ \E q \in (i + 1)..Len(text) : text[q] = Quote

RECURSIVE OutsideFrom(_, _)
\* The build script from position i on without the quoted versions of its
\* fabric-loom declarations.
OutsideFrom(text, i) ==
    IF i > Len(text) THEN << >>
    ELSE IF InVersion(text, i) THEN OutsideFrom(text, i + 1)
    ELSE <<text[i]>> \o OutsideFrom(text, i + 1)

\* The build script holds a fabric-loom declaration the pattern matches.
HasDecl(text) ==
    \E d \in 1..Len(text) :
       text[d] = LoomDecl /\ \E q \in (d + 1)..Len(text) : text[q] = Quote

\* Every fabric-loom declaration of the build script has version as its
\* quoted version.
DeclsAre(text, version) ==
    \A d \in 1..Len(text) :
       (text[d] = LoomDecl /\ \E q \in (d + 1)..Len(text) : text[q] = Quote)
       => /\ d + Len(version) + 1 <= Len(text)
          /\ SubSeq(text, d + 1, d + Len(version)) = version
          /\ text[d + Len(version) + 1] = Quote

\* ------------------------------------------------------------------ C5
\* C5 (as claimed): a target whose file does not exist when the patch set is
\* applied is reported skipped-missing-file, no exception aborts the patch
\* set, and every later target is still processed.
C5_MissingFileSkipped ==
    \A i \in 1..Len(Targets) :
       (~disk0[Targets[i]].exists /\ outcome[Targets[i]] # "pending") =>
          /\ outcome[Targets[i]] = "skipped-missing-file"
          /\ pc = "exit" =>
                \A j \in (i + 1)..Len(Targets) :
                   outcome[Targets[j]] # "pending"

\* ------------------------------------------------------------------ C6
\* C6: once the patch set has been applied, the files are what the four
\* updates make of the files the run began with, and applying the four
\* updates a second time with the same plan and versions changes no file.
C6_Idempotent ==
    PatchSetDone =>
      /\ disk = ApplyPatchSet(disk0, minecraft_version, mod_version,
                              suggestions)
      /\ ApplyPatchSet(disk, minecraft_version, mod_version, suggestions)
           = disk

\* C6 witness: every update returned and the patch set rewrote all four
\* files.
C6_Witness ==
    /\ PatchSetReturned
    /\ \A i \in 1..Len(Targets) : disk[Targets[i]] # disk0[Targets[i]]

\* ------------------------------------------------------------------ C7
\* The four target files exist and the manifest is well-formed JSON.
Usable(d) ==
    /\ \A i \in 1..Len(Targets) : d[Targets[i]].exists
    /\ d[FMJ].content.wellformed

\* Every field tied to the resolved fact f holds the value the plan has for
\* it (the wildcard, for the fabric-api entry of the manifest).
Rewritten(f) ==
    CASE f = "yarn_mappings" ->
           FieldsAre(disk[GP], "yarn_mappings=", suggestions[f])
      [] f = "loader_version" ->
           /\ FieldsAre(disk[GP], "loader_version=", suggestions[f])
           /\ disk[FMJ].content.doc.hasDepends =>
                Depends(disk[FMJ], "fabricloader")
                  = Some(<<">=">> \o suggestions[f])
      [] f = "fabric_version" ->
           /\ FieldsAre(disk[GP], "fabric_version=", suggestions[f])
           /\ disk[FMJ].content.doc.hasDepends =>
                Depends(disk[FMJ], "fabric-api") = Some(<<"*">>)
      [] f = "gradle_version" ->
           FieldsAre(disk[GW], "distributionUrl=",
                     <<DistributionPrefix>> \o suggestions[f]
                       \o <<"-bin.zip">>)
      [] f = "loom_version" ->
           DeclsAre(disk[BG].content, suggestions[f])

\* Every field tied to the unresolved fact f is as it was before the run.
Untouched(f) ==
    CASE f = "fabric_version" ->
           /\ Fields(disk[GP], "fabric_version=")
                = Fields(disk0[GP], "fabric_version=")
           /\ Depends(disk[FMJ], "fabric-api")
                = Depends(disk0[FMJ], "fabric-api")
      [] f = "loom_version" -> disk[BG] = disk0[BG]
      [] f = "gradle_version" -> disk[GW] = disk0[GW]
      [] f = "yarn_mappings" ->
           Fields(disk[GP], "yarn_mappings=")
             = Fields(disk0[GP], "yarn_mappings=")
      [] f = "loader_version" ->
           /\ Fields(disk[GP], "loader_version=")
                = Fields(disk0[GP], "loader_version=")
           /\ Depends(disk[FMJ], "fabricloader")
                = Depends(disk0[FMJ], "fabricloader")

\* C7: with exactly one fact absent from the plan and four usable target
\* files, no update raises, every field tied to the absent fact keeps its
\* previous value, and every field tied to a fact of the plan is rewritten.
C7_PartialPlan ==
    (/\ PatchSetDone
     /\ Usable(disk0)
     /\ Cardinality(Facts \ DOMAIN suggestions) = 1) =>
       /\ PatchSetReturned
       /\ \A i \in 1..Len(Targets) : outcome[Targets[i]] \notin Errors
       /\ \A f \in Facts \ DOMAIN suggestions : Untouched(f)
       /\ \A f \in Facts \cap DOMAIN suggestions : Rewritten(f)

\* C7 witness: the shipped project patched under a plan that lacks only the
\* fabric_version, whose line and manifest entry are still there.
C7_Witness ==
    /\ PatchSetReturned
    /\ disk0 = UsualDisk
    /\ Facts \ DOMAIN suggestions = {"fabric_version"}
    /\ \E n \in 1..Len(disk[GP].content) :
          disk[GP].content[n] = <<"fabric_version=", "0.50.0">>
    /\ Depends(disk[FMJ], "fabric-api") = Some(<<">=0.50.0">>)

\* ------------------------------------------------------------------ C8
\* The keys update_gradle_properties rewrites.
RecognizedKeys == {"minecraft_version=", "mod_version=", "yarn_mappings=",
                   "loader_version=", "fabric_version="}

C9_BuildScriptNoOpOrVersionOnly ==
    (/\ outcome[BG] # "pending"
     /\ disk0[BG].exists
     /\ "loom_version" \in DOMAIN suggestions) =>
       /\ outcome[BG] \in {"updated", "could not update"}
       /\ PatchSetReturned
       /\ IF ~HasDecl(disk0[BG].content)
          THEN disk[BG] = disk0[BG] /\ outcome[BG] = "could not update"
          ELSE /\ OutsideFrom(disk[BG].content, 1)
                    = OutsideFrom(disk0[BG].content, 1)
               /\ DeclsAre(disk[BG].content, suggestions["loom_version"])

\* C9 witness: a loom_version was found and the build script declares the
\* plugin in double quotes, which the pattern does not match.
C9_Witness ==
    /\ outcome[BG] = "could not update"
    /\ "loom_version" \in DOMAIN suggestions
    /\ disk0[BG].exists
    /\ ~HasDecl(disk0[BG].content)

\* ------------------------------------------------------------------ C10
\* update_fabric_mod_json put the wildcard where there was none.
WildcardWritten ==
    /\ outcome[FMJ] = "updated"
    /\ Depends(disk[FMJ], "fabric-api") = Some(<<"*">>)
    /\ Depends(disk0[FMJ], "fabric-api") # Some(<<"*">>)

StageOrder == <<"clean", "genSources", "vscode", "build">>

\* switch_version printed the line.
Printed(line) == \E i \in 1..Len(printed) : printed[i] = line

\* The verdict of the run as its report tells it: failed under the
\* build-failed banner, degraded-success under the success banner with the
\* note on failed setup steps, success under the success banner alone.
Verdict ==
    IF Printed(BuildFailedLine) THEN "failed"
    ELSE IF Printed(SuccessLine)
    THEN IF Printed(SetupStepsLine) THEN "degraded-success" ELSE "success"
    ELSE "none"

\* The build stage has returned.
Built == build_success # None

\* Every update of the patch set returned (none raised, none is pending).
AllPatched ==
    \A i \in 1..Len(Targets) : outcome[Targets[i]] \notin Errors \cup {"pending"}

\* ------------------------------------------------------------------ C11
\* C11: once the build stage has returned, the report tells success when the
\* build, genSources and vscode succeeded, degraded-success when the build
\* succeeded and genSources or vscode failed, and failed when the build
\* failed, whatever genSources, vscode and clean did.
C11_VerdictTable ==
    Built =>
      Verdict =
        IF build_success = Some(FALSE) THEN "failed"
        ELSE IF gen_sources_success = Some(FALSE)
                \/ vscode_success = Some(FALSE)
        THEN "degraded-success"
        ELSE "success"

\* C11 witness: the build succeeded after exactly one optional stage failed.
C11_Witness ==
    /\ build_success = Some(TRUE)
    /\ gen_sources_success = Some(TRUE)
    /\ vscode_success = Some(FALSE)
    /\ Verdict = "degraded-success"

\* ------------------------------------------------------------------ C12
\* C12: the run ends with status 0 or 1, with 0 exactly when the build stage
\* succeeded: a validation error, a missing gradle.properties, an update
\* that raised and a failed build end with 1, and neither the warnings of
\* the plan nor a failure of clean, genSources or vscode changes the status.
C12_ExitCode ==
    (pc = "exit") =>
      /\ exit_code \in {Some(0), Some(1)}
      /\ exit_code = Some(0) <=> build_success = Some(TRUE)
      /\ ~validate_minecraft_version(minecraft_version) => exit_code = Some(1)
      /\ ~validate_mod_version(mod_version) => exit_code = Some(1)
      /\ (\E i \in 1..Len(Targets) : outcome[Targets[i]] \in Errors)
            => exit_code = Some(1)
      /\ build_success = Some(FALSE) => exit_code = Some(1)

\* C12 witness: status 0 with warnings in the plan and clean, genSources and
\* vscode all failed.
C12_Witness ==
    /\ pc = "exit"
    /\ exit_code = Some(0)
    /\ warnings # << >>
    /\ Printed(CleanFailedLine)
    /\ gen_sources_success = Some(FALSE)
    /\ vscode_success = Some(FALSE)

\* ------------------------------------------------------------------ C13
\* C13 (as claimed): a failed clean or a failed build is the last stage of
\* the run, and the run then ends with the verdict failed.
C13_RequiredFailureTerminates ==
    /\ Printed(CleanFailedLine) =>
          /\ stages = <<"clean">>
          /\ pc = "exit" => Verdict = "failed"
    /\ build_success = Some(FALSE) =>
          /\ stages[Len(stages)] = "build"
          /\ pc = "exit" /\ Verdict = "failed"

\* C13 (amended): a failed build ends the run with the verdict failed; a
\* failed clean, like a failed genSources or vscode, lets the pipeline go
\* on to the build stage, which alone decides between failed and not.
C13_OnlyBuildFailureTerminates ==
    /\ build_success = Some(FALSE) =>
          /\ stages[Len(stages)] = "build"
          /\ pc = "exit" /\ Verdict = "failed" /\ exit_code = Some(1)
    /\ (Printed(CleanFailedLine) \/ Printed(GenSourcesFailedLine)
          \/ Printed(VscodeFailedLine)) =>
          /\ pc \in {"genSources", "vscode", "build", "exit"}
          /\ pc = "exit" =>
                /\ stages = StageOrder
                /\ Verdict = "failed" <=> build_success = Some(FALSE)

\* C13 witness: the clean stage failed and the run ended in success.
C13_Witness ==
    /\ pc = "exit"
    /\ Printed(CleanFailedLine)
    /\ Verdict = "success"

\* ------------------------------------------------------------------ C14
\* The stages invoked so far are the first ones of clean, genSources,
\* vscode, build, each once; none is invoked before every update returned;
\* each is invoked when the one before it returned, whatever that one gave;
\* and a run that ends after the updates returned has invoked all four.
StagesInOrder ==
    /\ Len(stages) <= Len(StageOrder)
    /\ stages = SubSeq(StageOrder, 1, Len(stages))
    /\ stages # << >> => AllPatched
    /\ pc = "clean" => stages = << >>
    /\ pc = "genSources" => stages = SubSeq(StageOrder, 1, 1)
    /\ pc = "vscode" => stages = SubSeq(StageOrder, 1, 2)
    /\ pc = "build" => stages = SubSeq(StageOrder, 1, 3)
    /\ (pc = "exit" /\ AllPatched) => (stages = StageOrder /\ Built)

\* C14: after the updates returned the stages run one after another in the
\* order clean, genSources, vscode, build, each invoked once, and whatever
\* clean, genSources and vscode give, the build stage is reached.
C14_StagesInOrder ==
    []StagesInOrder /\ ((pc = "clean") ~> (Built /\ stages = StageOrder))

\* C14 witness: clean, genSources and vscode all failed and the build stage
\* was still run, as the fourth stage.
C14_Witness ==
    /\ Printed(CleanFailedLine)
    /\ gen_sources_success = Some(FALSE)
    /\ vscode_success = Some(FALSE)
    /\ Built
    /\ stages = StageOrder

\* ------------------------------------------------------------------ C15
\* No file is written, no update attempted and no stage started before
\* suggest_versions returned, and every rendering of the warnings was made
\* after it returned and shows the warnings as they are.
ResolvedFirst ==
    /\ (\/ \E i \in 1..Len(Targets) :
              \/ disk[Targets[i]] # disk0[Targets[i]]
              \/ outcome[Targets[i]] # "pending"
        \/ stages # << >>
        \/ shown # << >>) => Planned
    /\ \A i \in 1..Len(shown) : shown[i] = warnings

\* Once suggest_versions returned, no step asks a source or changes the
\* plan or its warnings.
PlanFrozen ==
    Planned => /\ fetched' = fetched
               /\ suggestions' = suggestions
               /\ warnings' = warnings

\* C15: every request is answered before the first file write and none is
\* made after suggest_versions returned; every later rendering of the
\* warnings shows the sequence suggest_versions produced; nothing is
\* written and no stage is started before the resolution has finished.
C15_ResolveBeforeWrite == []ResolvedFirst /\ [][PlanFrozen]_vars

\* C15 witness: a run that rendered the warnings three times (before the
\* updates, after them and after the failed build) and rewrote a file.
C15_Witness ==
    /\ pc = "exit"
    /\ Len(shown) = 3
    /\ build_success = Some(FALSE)
    /\ disk[GP] # disk0[GP]

\* ------------------------------------------------------------------ C16
\* What the updates before target number i make of the files the run began
\* with are the files on disk.
EarlierRewritten(i) ==
    /\ i > 1 => disk[GP] = update_gradle_properties(disk0[GP],
                    minecraft_version, mod_version, suggestions).file
    /\ i > 2 => disk[FMJ] = update_fabric_mod_json(disk0[FMJ],
                    minecraft_version, suggestions).file
    /\ i > 3 => disk[GW] = update_gradle_wrapper(disk0[GW], suggestions).file

\* C16: when the update of a target raised, the run has ended with status 1
\* at that target: no later target was attempted or changed, no stage was
\* started, the target itself is as it was, and the targets before it hold
\* what their updates wrote.
C16_AbortAtRaise ==
    \A i \in 1..Len(Targets) :
       outcome[Targets[i]] \in Errors =>
          /\ pc = "exit" /\ exit_code = Some(1)
          /\ stages = << >> /\ ~Built
          /\ \A j \in (i + 1)..Len(Targets) :
                /\ outcome[Targets[j]] = "pending"
                /\ disk[Targets[j]] = disk0[Targets[j]]
          /\ disk[Targets[i]] = disk0[Targets[i]]
          /\ \A j \in 1..(i - 1) : outcome[Targets[j]] = "updated"
          /\ EarlierRewritten(i)

\* C16 witness: the manifest was malformed, and gradle.properties had been
\* rewritten before.
C16_Witness ==
    /\ outcome[FMJ] = "JSONDecodeError"
    /\ outcome[GP] = "updated"
    /\ disk[GP] # disk0[GP]

====
